---- MODULE Spec2Model ----
(***************************************************************************)
(* Authentication subsystem of the repository: the Express handlers of     *)
(* backend/controllers/authorisationController.js (registerUser,           *)
(* loginUser, googleAuth, microsoftAuth), the session gate of              *)
(* backend/middleware/authMiddleware.js and the GET /verify route.         *)
(*                                                                         *)
(* Every handler is an async function: it runs atomically between two      *)
(* awaited store operations, and the handlers of concurrent requests       *)
(* interleave at those awaits.  A request slot therefore steps             *)
(*   begin (validation + the awaited findOne and the code up to the next   *)
(*          store operation)                                               *)
(*   -> insertOne | updateOne (the awaited write and the code up to the    *)
(*          response)                                                      *)
(*   -> done (the response is there).                                      *)
(* The store is assumed available: connection failures are not modelled.   *)
(***************************************************************************)
EXTENDS Integers, Sequences, FiniteSets, TLC

\* ---------------------------------------------------------------- bounds
MaxUsers == 2        \* records the store may hold
MaxClock == 3        \* instants the clock runs through

\* ------------------------------------------------------- program constants
\* expiresIn: "1d"; one clock instant of the model is half a day
ExpiresIn == 2
\* the fallback signing key of createToken
DefaultSecret == "mysecret"

\* ------------------------------------------------------------ input sets
Slots == {1, 2}                     \* the requests that may be in flight
Missing == ""                       \* an absent (or empty, falsy) field
Null == "null"                      \* a null field of a stored document
Emails == {"new@x.com", "alice@x.com"}
Passwords == {"pw123456", "hunter22"}
Subs == {"g-42", "g-43"}            \* Google subject ids
Salts == {"salt"}
NoHash == <<>>                      \* passwordHash: null
\* process.env.JWT_SECRET: unset (or empty) or set
Secrets == {Missing, "s3cret"}

\* req.body of POST /register: complete, or with one field missing
RegisterBodies ==
  [name : {"Alice"}, email : Emails, password : {"pw123456"}]
  \cup {[name |-> Missing, email |-> "alice@x.com", password |-> "pw123456"],
        [name |-> "Alice", email |-> Missing, password |-> "pw123456"],
        [name |-> "Alice", email |-> "alice@x.com", password |-> Missing]}

\* req.body of POST /login
LoginBodies ==
  [email : Emails, password : Passwords]
  \cup {[email |-> Missing, password |-> "pw123456"],
        [email |-> "alice@x.com", password |-> Missing]}

\* req.body.token of POST /google-auth: absent, or an ID token which the
\* Google verifier accepts (valid) or rejects, with the claims of its payload.
\* The account g-42 has a display name, g-43 has none.
NoGoogleToken == [present |-> FALSE, valid |-> FALSE, sub |-> Missing,
                  email |-> Missing, name |-> Missing]
GoogleName(sub) == IF sub = "g-42" THEN "Gina" ELSE Missing
GoogleTokens ==
  {[present |-> TRUE, valid |-> v, sub |-> sub, email |-> e,
    name |-> GoogleName(sub)] : v \in BOOLEAN, sub \in Subs, e \in Emails}
  \cup {[present |-> TRUE, valid |-> TRUE, sub |-> Missing,
         email |-> "new@x.com", name |-> Missing],
        NoGoogleToken}

\* req.body.token of POST /microsoft-auth: absent, or a string that
\* jwt.decode can decode or not, with the claims it carries
NoMicrosoftToken == [present |-> FALSE, decodable |-> FALSE,
                     preferred_username |-> Missing, upn |-> Missing,
                     email |-> Missing, oid |-> Missing, sub |-> Missing]
MsToken(pu, upn, email, oid, sub) ==
  [present |-> TRUE, decodable |-> TRUE, preferred_username |-> pu,
   upn |-> upn, email |-> email, oid |-> oid, sub |-> sub]
MicrosoftTokens ==
  {MsToken("alice@x.com", "upn@x.com", "mail@x.com", "m-1", "m-sub"),
   MsToken(Missing, "alice@x.com", "mail@x.com", Missing, "m-1"),
   MsToken(Missing, Missing, "alice@x.com", "m-1", Missing),
   MsToken(Missing, Missing, Missing, "m-1", "m-sub"),
   MsToken("alice@x.com", Missing, Missing, Missing, Missing),
   [NoMicrosoftToken EXCEPT !.present = TRUE],
   NoMicrosoftToken}

NoToken == [userId |-> <<>>, iat |-> 0, exp |-> 0, sig |-> Missing]
NoDoc == [_id |-> 0, name |-> Null, email |-> Null, passwordHash |-> NoHash,
          googleId |-> Null, microsoftId |-> Null]

VARIABLES users,      \* the "users" collection, in natural (insertion) order
          req,        \* the request slots: position, locals and response
          clock,      \* the current instant
          jwtSecret,  \* process.env.JWT_SECRET
          gate,       \* the last request that went through authMiddleware
          client,     \* the browser: localStorage, UserProvider state, location
          api         \* the last response of GET /api/users

vars == <<users, req, clock, jwtSecret, gate, client, api>>

\* ------------------------------------------------------------ the store
\* ObjectId.toString(): the hex string of an id; ids are numbered in the
\* order of creation and the hex string of id n is written <<"oid", n>>
toString(id) == <<"oid", id>>

\* the first index of a non-empty set of positions (natural order)
First(S) == CHOOSE i \in S : \A j \in S : i <= j

\* a faulty findOneByEmail: the lookup never finds a record
findOneByEmail_miss(email) == NoDoc

\* usersCollection.findOne({ email })
findOneByEmail(email) ==
  LET S == {i \in 1..Len(users) : users[i].email = email}
  IN IF S = {} THEN NoDoc ELSE users[First(S)]

\* usersCollection.findOne({ $or: [{ googleId: sub }, { email }] })
findOneByGoogleIdOrEmail(sub, email) ==
  LET S == {i \in 1..Len(users) :
              users[i].googleId = sub \/ users[i].email = email}
  IN IF S = {} THEN NoDoc ELSE users[First(S)]

\* usersCollection.findOne({ $or: [{ microsoftId: msId }, { email }] })
findOneByMicrosoftIdOrEmail(msId, email) ==
  LET S == {i \in 1..Len(users) :
              users[i].microsoftId = msId \/ users[i].email = email}
  IN IF S = {} THEN NoDoc ELSE users[First(S)]

\* usersCollection.insertOne(doc): the store assigns a fresh _id and appends
insertedId == Len(users) + 1
insertOne(doc) == Append(users, [doc EXCEPT !._id = insertedId])

\* a faulty updateOneGoogleId: the filter matches no document
updateOneGoogleId_nomatch(id, sub) == users

\* usersCollection.updateOne({ _id }, { $set: { googleId: sub } })
updateOneGoogleId(id, sub) ==
  [i \in 1..Len(users) |->
     IF users[i]._id = id THEN [users[i] EXCEPT !.googleId = sub]
     ELSE users[i]]

\* usersCollection.updateOne({ _id }, { $set: { microsoftId: msId } })
updateOneMicrosoftId(id, msId) ==
  [i \in 1..Len(users) |->
     IF users[i]._id = id THEN [users[i] EXCEPT !.microsoftId = msId]
     ELSE users[i]]

\* ------------------------------------------------------- password hasher
\* bcrypt.hash(password, 10): a digest of the salt and the password, stored
\* together with the salt
bcrypt_hash(password, salt) == <<salt, <<salt, password>>>>

\* bcrypt.compare(password, hash): "throws" when the hash is null (the
\* promise rejects: data and hash arguments required), else recomputes the
\* digest with the stored salt and compares
bcrypt_compare(password, hash) ==
  IF hash = NoHash THEN "throws"
  ELSE IF bcrypt_hash(password, hash[1]) = hash THEN "match" ELSE "mismatch"

\* --------------------------------------------------------- session token
\* createToken(userId): jwt.sign({ userId }, JWT_SECRET || "mysecret",
\* { expiresIn: "1d" })
createToken(userId) ==
  [userId |-> userId, iat |-> clock, exp |-> clock + ExpiresIn,
   sig |-> IF jwtSecret # Missing THEN jwtSecret ELSE DefaultSecret]

\* a faulty jwt_verify: the expiry is ignored
jwt_verify_ignoreExpiration(token, secret) ==
  IF secret = Missing THEN "throws"
  ELSE IF token = NoToken THEN "throws"
  ELSE IF token.sig # secret THEN "throws"
  ELSE "ok"

\* jwt.verify(token, secret): "throws" without a secret, on a string that is
\* no token, on a signature made with another key and from the expiry
\* instant on; else the payload is returned
jwt_verify(token, secret) ==
  IF secret = Missing THEN "throws"
  ELSE IF token = NoToken THEN "throws"
  ELSE IF token.sig # secret THEN "throws"
  ELSE IF clock >= token.exp THEN "throws"
  ELSE "ok"

\* ---------------------------------------------------------- request slots
Idle == [pc |-> "idle", op |-> "none", name |-> Missing, email |-> Missing,
         password |-> Missing, sub |-> Missing, provider |-> "none",
         user |-> 0, doc |-> NoDoc, branch |-> "none",
         status |-> 0, message |-> Missing, access |-> NoToken]

\* a request that entered handler op with these inputs
\* (provider: what the provider-token check of a federated login found;
\* branch: the branch the handler took after its lookup)
Enter(op, email, password, sub, provider) ==
  [Idle EXCEPT !.op = op, !.email = email, !.password = password,
               !.sub = sub, !.provider = provider]

\* res.status(code).json({ message })
Fail(r, code, message) ==
  [r EXCEPT !.pc = "done", !.status = code, !.message = message]

\* res.json({ access: token }): status 200
Ok(r, token) ==
  [r EXCEPT !.pc = "done", !.status = 200, !.access = token]

\* a slot takes the next request when it is not in flight; the slots being
\* interchangeable, a request takes the lowest such slot (the response it
\* replaces there is the one of an earlier, completed request)
Vacant(s) == req[s].pc \in {"idle", "done"}
Free(s) == Vacant(s) /\ \A t \in Slots : t < s => ~Vacant(t)

\* the slot s takes a request that is now in state next; the responses of
\* the completed requests have been sent and are dropped
Take(s, next) ==
  [t \in Slots |->
     IF t = s THEN next ELSE IF req[t].pc = "done" THEN Idle ELSE req[t]]

\* the store has room for the insert of one more request (model bound)
Room ==
  Len(users) + Cardinality({t \in Slots : req[t].pc = "insertOne"}) < MaxUsers

\* ----------------------------------------------------------- registerUser
\* lines 53-82: validation, findOne({ email }), bcrypt.hash, newUser
registerUser_begin(s, name, email, password, salt) ==
  /\ Free(s)
  /\ LET r == [Enter("register", email, password, Missing, "none")
                 EXCEPT !.name = name]
         existing == findOneByEmail(email)
         next ==
          IF name = Missing \/ email = Missing \/ password = Missing
          THEN Fail(r, 400, "Missing fields")
          ELSE IF existing # NoDoc
          THEN Fail(r, 400, "User with that email already exists")
          ELSE [r EXCEPT !.pc = "insertOne", !.branch = "created",
                         !.doc = [NoDoc EXCEPT
                                    !.name = name, !.email = email,
                                    !.passwordHash =
                                       bcrypt_hash(password, salt)]]
     IN /\ next.pc = "insertOne" => Room
        /\ req' = Take(s, next)
  /\ UNCHANGED <<users, clock, jwtSecret, gate>>

\* lines 84-90: insertOne(newUser), createToken(insertedId), res.json
registerUser_insert(s) ==
  /\ req[s].pc = "insertOne"
  /\ req[s].op = "register"
  /\ users' = insertOne(req[s].doc)
  /\ req' = [req EXCEPT ![s] =
       Ok([req[s] EXCEPT !.user = insertedId],
          createToken(toString(insertedId)))]
  /\ UNCHANGED <<clock, jwtSecret, gate>>

\* -------------------------------------------------------------- loginUser
\* lines 108-137: validation, findOne({ email }), bcrypt.compare, createToken;
\* a rejected bcrypt.compare lands in the catch block (500)
loginUser(s, email, password) ==
  /\ Free(s)
  /\ LET r == Enter("login", email, password, Missing, "none")
         user == findOneByEmail(email)
         isMatch == bcrypt_compare(password, user.passwordHash)
     IN req' = Take(s,
          IF email = Missing \/ password = Missing
          THEN Fail(r, 400, "Missing fields")
          ELSE IF user = NoDoc
          THEN Fail(r, 401, "Invalid credentials")
          ELSE IF isMatch = "throws"
          THEN Fail(r, 500, "Internal server error")
          ELSE IF isMatch = "mismatch"
          THEN Fail(r, 401, "Invalid credentials")
          ELSE Ok([r EXCEPT !.user = user._id, !.branch = "found"],
                  createToken(toString(user._id))))
  /\ UNCHANGED <<users, clock, jwtSecret, gate>>

\* ------------------------------------------------------------- googleAuth
\* googleClient.verifyIdToken({ idToken, audience }): rejects a token the
\* verifier does not accept ("throws"), else the ticket with the payload
verifyIdToken(token) == IF token.valid THEN "ok" ELSE "throws"

\* a || b on two strings: the first one that is not empty
Or(a, b) == IF a # Missing THEN a ELSE b

\* lines 151-199 up to the awaited write: token check, verifyIdToken (a
\* rejection lands in the catch block, 500), findOne({ $or }), and the
\* branch found / not found
googleAuth_begin(s, token) ==
  /\ Free(s)
  /\ LET r == IF ~token.present
              THEN Enter("google", Missing, Missing, Missing, "absent")
              ELSE IF verifyIdToken(token) = "throws"
              THEN Enter("google", Missing, Missing, Missing, "rejected")
              ELSE Enter("google", token.email, Missing, token.sub,
                         "accepted")
         user == findOneByGoogleIdOrEmail(token.sub, token.email)
         next ==
          IF ~token.present
          THEN Fail(r, 400, "Google token not provided")
          ELSE IF verifyIdToken(token) = "throws"
          THEN Fail(r, 500, "Internal server error")
          ELSE IF token.sub = Missing
          THEN Fail(r, 400, "Invalid Google token")
          ELSE IF user = NoDoc
          THEN [r EXCEPT !.pc = "insertOne", !.branch = "created",
                         !.doc = [NoDoc EXCEPT
                                    !.name = Or(token.name, "No Name"),
                                    !.email = token.email,
                                    !.googleId = token.sub]]
          ELSE IF user.googleId = Null
          THEN [r EXCEPT !.pc = "updateOne", !.branch = "linked",
                         !.user = user._id]
          ELSE Ok([r EXCEPT !.user = user._id, !.branch = "found"],
                  createToken(toString(user._id)))
     IN /\ next.pc = "insertOne" => Room
        /\ req' = Take(s, next)
  /\ UNCHANGED <<users, clock, jwtSecret, gate>>

\* lines 187-188, 202-203: insertOne(doc), createToken(insertedId)
googleAuth_insert(s) ==
  /\ req[s].pc = "insertOne"
  /\ req[s].op = "google"
  /\ users' = insertOne(req[s].doc)
  /\ req' = [req EXCEPT ![s] =
       Ok([req[s] EXCEPT !.user = insertedId],
          createToken(toString(insertedId)))]
  /\ UNCHANGED <<clock, jwtSecret, gate>>

\* lines 192-198, 202-203: updateOne({ _id }, { $set: { googleId: sub } })
googleAuth_update(s) ==
  /\ req[s].pc = "updateOne"
  /\ req[s].op = "google"
  /\ users' = updateOneGoogleId(req[s].user, req[s].sub)
  /\ req' = [req EXCEPT ![s] =
       Ok(req[s], createToken(toString(req[s].user)))]
  /\ UNCHANGED <<clock, jwtSecret, gate>>

\* ---------------------------------------------------------- microsoftAuth
\* msJwt.decode(token): the claims, or null for a string that is no token
decode(token) == IF token.decodable THEN "claims" ELSE "null"

\* a faulty resolution that tries upn before preferred_username
msEmail_upnFirst(token) ==
  Or(token.upn, Or(token.preferred_username, token.email))

\* line 237: decoded.preferred_username || decoded.upn || decoded.email
msEmail(token) == Or(token.preferred_username, Or(token.upn, token.email))

\* line 245: decoded.oid || decoded.sub
msId(token) == Or(token.oid, token.sub)

\* lines 223-280 up to the awaited write
microsoftAuth_begin(s, token) ==
  /\ Free(s)
  /\ LET r == IF ~token.present
              THEN Enter("microsoft", Missing, Missing, Missing, "absent")
              ELSE IF decode(token) = "null"
              THEN Enter("microsoft", Missing, Missing, Missing, "rejected")
              ELSE Enter("microsoft", msEmail(token), Missing, msId(token),
                         "accepted")
         user == findOneByMicrosoftIdOrEmail(msId(token), msEmail(token))
         next ==
          IF ~token.present
          THEN Fail(r, 400, "Microsoft token not provided")
          ELSE IF decode(token) = "null"
          THEN Fail(r, 400, "Invalid MS token")
          ELSE IF msEmail(token) = Missing
          THEN Fail(r, 400, "Token missing user email. Cannot proceed.")
          ELSE IF msId(token) = Missing
          THEN Fail(r, 400, "Token missing oid/sub. Cannot proceed.")
          ELSE IF user = NoDoc
          THEN [r EXCEPT !.pc = "insertOne", !.branch = "created",
                         !.doc = [NoDoc EXCEPT
                                    !.name = "Microsoft User",
                                    !.email = msEmail(token),
                                    !.microsoftId = msId(token)]]
          ELSE IF user.microsoftId = Null
          THEN [r EXCEPT !.pc = "updateOne", !.branch = "linked",
                         !.user = user._id]
          ELSE Ok([r EXCEPT !.user = user._id, !.branch = "found"],
                  createToken(toString(user._id)))
     IN /\ next.pc = "insertOne" => Room
        /\ req' = Take(s, next)
  /\ UNCHANGED <<users, clock, jwtSecret, gate>>

\* lines 269-270, 283-284: insertOne(doc), createToken(insertedId)
microsoftAuth_insert(s) ==
  /\ req[s].pc = "insertOne"
  /\ req[s].op = "microsoft"
  /\ users' = insertOne(req[s].doc)
  /\ req' = [req EXCEPT ![s] =
       Ok([req[s] EXCEPT !.user = insertedId],
          createToken(toString(insertedId)))]
  /\ UNCHANGED <<clock, jwtSecret, gate>>

\* lines 274-278, 283-284: updateOne({ _id }, { $set: { microsoftId } })
microsoftAuth_update(s) ==
  /\ req[s].pc = "updateOne"
  /\ req[s].op = "microsoft"
  /\ users' = updateOneMicrosoftId(req[s].user, req[s].sub)
  /\ req' = [req EXCEPT ![s] =
       Ok(req[s], createToken(toString(req[s].user)))]
  /\ UNCHANGED <<clock, jwtSecret, gate>>

\* --------------------------------------------------- server session gate
\* an Authorization header is a string: here a sequence of symbols, each a
\* word, a space or a session token
Word(w) == [k |-> "word", w |-> w, t |-> NoToken]
Space == [k |-> "space", w |-> " ", t |-> NoToken]
Jwt(t) == [k |-> "jwt", w |-> Missing, t |-> t]
NoHeader == <<>>                 \* req.headers.authorization is undefined

\* a token signed with a key that is not the server's
Forged == [userId |-> toString(1), iat |-> 0, exp |-> MaxClock + 2,
           sig |-> "attacker"]

\* the tokens the server handed out in the responses that are there
Issued == {req[s].access : s \in {t \in Slots : req[t].access # NoToken}}

Headers ==
  {NoHeader, <<Word("Bearer")>>, <<Word("Bearer"), Space>>,
   <<Word("Bearer"), Space, Word("abc")>>}
  \cup UNION {{<<Word("Bearer"), Space, Jwt(t)>>,
               <<Word("Token"), Space, Jwt(t)>>,
               <<Word("Bearer"), Space, Space, Jwt(t)>>,
               <<Jwt(t)>>} : t \in Issued \cup {Forged}}

\* authHeader.split(" "): the parts between the spaces, empty parts included
RECURSIVE split(_)
split(h) ==
  IF h = <<>> THEN <<<<>>>>
  ELSE LET rest == split(Tail(h))
       IN IF Head(h).k = "space" THEN <<<<>>>> \o rest
          ELSE <<<<Head(h)>> \o Head(rest)>> \o Tail(rest)

\* the token a header part spells, if it spells one
tokenOf(part) ==
  IF Len(part) = 1 /\ part[1].k = "jwt" THEN part[1].t ELSE NoToken

NoGate == [header |-> NoHeader, status |-> 0, message |-> Missing,
           next |-> FALSE, userId |-> <<>>, valid |-> FALSE, at |-> 0]

\* authMiddleware (lines 21-53) followed by the GET /verify handler
\* (routes, lines 24-28) when next() is called
authMiddleware(header) ==
  LET g == [NoGate EXCEPT !.header = header, !.at = clock]
      parts == split(header)
      token == tokenOf(parts[2])
  IN IF header = NoHeader
     THEN [g EXCEPT !.status = 401, !.message = "No auth token provided."]
     ELSE IF Len(parts) # 2 \/ parts[1] # <<Word("Bearer")>>
     THEN [g EXCEPT !.status = 401,
                    !.message = "Invalid auth header format."]
     ELSE IF jwt_verify(token, jwtSecret) = "throws"
     THEN [g EXCEPT !.status = 401,
                    !.message = "Invalid or expired token."]
     ELSE [g EXCEPT !.next = TRUE, !.userId = token.userId,
                    !.status = 200, !.valid = TRUE]

\* GET /authorisation/verify with the given Authorization header
verify(header) ==
  /\ gate' = authMiddleware(header)
  /\ UNCHANGED <<users, req, clock, jwtSecret>>

\* time passes
Tick ==
  /\ clock < MaxClock
  /\ clock' = clock + 1
  /\ UNCHANGED <<users, req, jwtSecret, gate>>

\* ------------------------------------------------------------ GET /api/users
NoApi == [status |-> 0, body |-> <<>>]

\* app.get("/api/users"): find().toArray() and res.json(users); the route
\* is mounted without authMiddleware
getUsers ==
  /\ api' = [status |-> 200, body |-> users]
  /\ UNCHANGED <<users, req, clock, jwtSecret, gate, client>>

\* --------------------------------------------------------------- the client
LoginView == "/auth?mode=login"
Locations == {"/", LoginView, "/dashboard"}

\* App: the paths "/" and "/auth" are public, any other page is wrapped
\* in ProtectRoute
publicPaths == {"/", LoginView}

\* UserProvider as constructed on a page load at a location: the useState
\* defaults, with what localStorage holds under "access_token"; the
\* useEffect has not run yet (pc "mount").
\*   bearer: the token of the verification request in flight (pc "verify")
\*   awaiting: the context function whose fetch is in flight; "none" when
\*     the last one returned its result (or none was called), "rejected"
\*     when its promise rejected
\*   msToken: the body of that fetch when it is loginWithMicrosoft
\*   loggedOut: logout was the last handler of the client that ran
UserProvider(storage, location) ==
  [storage |-> storage, isLoggedIn |-> FALSE, authLoading |-> TRUE,
   pc |-> "mount", bearer |-> NoToken, awaiting |-> "none",
   msToken |-> NoMicrosoftToken, location |-> location, loggedOut |-> FALSE]

\* the value of UserContext.Provider (its functions left out)
value(c) == [isLoggedIn |-> c.isLoggedIn, authLoading |-> c.authLoading]

\* a destructured property read in a condition: a property the object does
\* not have is undefined, which is falsy
Truthy(obj, field) == IF field \in DOMAIN obj THEN obj[field] ELSE FALSE

\* a faulty ProtectRoute that does not wait for the verification
ProtectRoute_noWait(ctx) ==
  IF ~Truthy(ctx, "isLoggedIn") \/ ~Truthy(ctx, "user")
  THEN "redirect" ELSE "children"

\* a faulty ProtectRoute that lets anyone in once the verification is over
ProtectRoute_open(ctx) ==
  IF Truthy(ctx, "authLoading") THEN "placeholder" ELSE "children"

\* ProtectRoute: what it returns for a context value
ProtectRoute(ctx) ==
  IF Truthy(ctx, "authLoading") THEN "placeholder"
  ELSE IF ~Truthy(ctx, "isLoggedIn") \/ ~Truthy(ctx, "user")
  THEN "redirect"
  ELSE "children"

\* what the router renders at the client's location
View(c) ==
  IF c.location \in publicPaths THEN "public" ELSE ProtectRoute(value(c))

\* Layout shows the Sidebar, with its logout button, on the other paths
Sidebar(c) == c.location \notin {"/", LoginView, "/404"}

ClientOnly == UNCHANGED <<users, req, clock, jwtSecret, gate, api>>

\* a page load (first visit, refresh or typed address): localStorage
\* persists, the component state starts afresh, pending fetches are lost
load(location) ==
  /\ client' = UserProvider(client.storage, location)
  /\ ClientOnly

\* verifyToken, lines 27-44: no stored token ends the verification, else
\* GET /verify is sent with the stored token
verifyToken ==
  /\ client.pc = "mount"
  /\ client' =
       IF client.storage = NoToken
       THEN [client EXCEPT !.authLoading = FALSE, !.pc = "ready", !.loggedOut = FALSE]
       ELSE [client EXCEPT !.pc = "verify", !.bearer = client.storage,
                           !.loggedOut = FALSE]
  /\ ClientOnly

\* index (lines 262-267) renders the application inside React.StrictMode:
\* in a development build React runs the effect of a component that has
\* just mounted a second time, and the effect has no cleanup, so
\* verifyToken runs twice one after the other (lines 27-44 twice) and, with
\* a stored token, two GET /verify requests are in flight (pc "verify2")
verifyToken_strict ==
  /\ client.pc = "mount"
  /\ client' =
       IF client.storage = NoToken
       THEN [client EXCEPT !.authLoading = FALSE, !.pc = "ready", !.loggedOut = FALSE]
       ELSE [client EXCEPT !.pc = "verify2", !.bearer = client.storage,
                           !.loggedOut = FALSE]
  /\ ClientOnly

\* the verify requests of the page that are in flight
inFlight(c) == IF c.pc = "verify2" THEN 2 ELSE IF c.pc = "verify" THEN 1 ELSE 0

\* the position once one of the requests in flight has been handled
handled(pc) == IF pc = "verify2" THEN "verify" ELSE "ready"

\* verifyToken, lines 46-53 and 59-61: the server answers the request
verifyToken_response ==
  /\ inFlight(client) > 0
  /\ verify(<<Word("Bearer"), Space, Jwt(client.bearer)>>)
  /\ client' =
       IF gate'.status = 200
       THEN [client EXCEPT !.isLoggedIn = TRUE, !.authLoading = FALSE,
                           !.pc = handled(client.pc), !.loggedOut = FALSE]
       ELSE [client EXCEPT !.storage = NoToken, !.isLoggedIn = FALSE,
                           !.authLoading = FALSE,
                           !.pc = handled(client.pc), !.loggedOut = FALSE]
  /\ api' = api

\* verifyToken, lines 54-61: the fetch fails (network error)
verifyToken_catch ==
  /\ inFlight(client) > 0
  /\ client' = [client EXCEPT !.storage = NoToken, !.isLoggedIn = FALSE,
                              !.authLoading = FALSE,
                              !.pc = handled(client.pc), !.loggedOut = FALSE]
  /\ ClientOnly

\* no context function is in flight
Settled == {"none", "rejected"}

\* the fetch of a context function is sent from the form of the login view
\* (the effect of the page load has run before any form is submitted)
Sends(op) ==
  /\ client.pc # "mount"
  /\ client.location = LoginView
  /\ client.awaiting \in Settled
  /\ client' = [client EXCEPT !.awaiting = op, !.loggedOut = FALSE]
  /\ api' = api

\* login(email, password): POST /authorisation/login
login(email, password) ==
  /\ Sends("login")
  /\ loginUser(1, email, password)

\* registerUser(name, email, password): POST /authorisation/register
registerUser(name, email, password, salt) ==
  /\ Sends("registerUser")
  /\ registerUser_begin(1, name, email, password, salt)

\* loginWithGoogle(googleToken): POST /authorisation/google-auth
loginWithGoogle(googleToken) ==
  /\ Sends("loginWithGoogle")
  /\ googleAuth_begin(1, googleToken)

\* loginWithMicrosoft(msToken): POST /authorisation/microsoft-auth
loginWithMicrosoft(msToken) ==
  /\ client.pc # "mount"
  /\ client.location = LoginView
  /\ client.awaiting \in Settled
  /\ client' = [client EXCEPT !.awaiting = "loginWithMicrosoft",
                              !.msToken = msToken, !.loggedOut = FALSE]
  /\ microsoftAuth_begin(1, msToken)
  /\ api' = api

\* the rate limiter (express-rate-limit, 500 requests in 15 minutes for an
\* IP address; the requests of the address that count are not all this
\* client's): the request does not reach its handler and is answered 429
\* with the message as a plain-text body
limiter(s) ==
  /\ Free(s)
  /\ req' = Take(s, Fail(Enter("limited", Missing, Missing, Missing, "none"),
                         429,
                         "Too many requests from this IP, please try again later."))
  /\ UNCHANGED <<users, clock, jwtSecret, gate>>

\* a context function whose request the rate limiter answers
limited(op) ==
  /\ Sends(op)
  /\ limiter(1)

\* response.json(): the body parsed as JSON; the promise rejects on a body
\* that is not JSON (the handlers answer with res.json, the limiter with
\* text)
json(r) == IF r.status = 429 THEN "throws" ELSE "ok"

\* handleAuthResponse, lines 70-79, and the submit handler of AuthPage that
\* called the context function: an OK response stores the token, logs in
\* and navigates to the dashboard; any other JSON response changes nothing.
\* The context function returns the promise of handleAuthResponse without
\* awaiting it inside its try block (line 94): when response.json() rejects,
\* the catch block does not run and the context function rejects
handleAuthResponse ==
  /\ client.awaiting \notin Settled
  /\ req[1].pc = "done"
  /\ client' =
       IF json(req[1]) = "throws"
       THEN [client EXCEPT !.awaiting = "rejected",
                           !.msToken = NoMicrosoftToken, !.loggedOut = FALSE]
       ELSE IF req[1].status = 200
       THEN [client EXCEPT !.storage = req[1].access, !.isLoggedIn = TRUE,
                           !.awaiting = "none",
                           !.msToken = NoMicrosoftToken,
                           !.location = "/dashboard", !.loggedOut = FALSE]
       ELSE [client EXCEPT !.awaiting = "none",
                           !.msToken = NoMicrosoftToken, !.loggedOut = FALSE]
  /\ ClientOnly

\* the catch block of a context function: the fetch failed
fetch_catch ==
  /\ client.awaiting \notin Settled
  /\ client' = [client EXCEPT !.awaiting = "none",
                              !.msToken = NoMicrosoftToken, !.loggedOut = FALSE]
  /\ ClientOnly

\* a faulty logout that leaves the token in localStorage
logout_keepsToken ==
  /\ client.pc # "mount"
  /\ Sidebar(client)
  /\ View(client) # "redirect"
  /\ client' = [client EXCEPT !.isLoggedIn = FALSE,
                              !.location = LoginView, !.loggedOut = TRUE]
  /\ ClientOnly

\* logout (lines 164-168), called from the Sidebar
logout ==
  /\ client.pc # "mount"
  /\ Sidebar(client)
  /\ View(client) # "redirect"
  /\ client' = [client EXCEPT !.storage = NoToken, !.isLoggedIn = FALSE,
                              !.location = LoginView, !.loggedOut = TRUE]
  /\ ClientOnly

\* Sidebar: the items of its lower list
settingsItems == {"Account", "Settings", "Logout"}

\* Sidebar, handleLogout (lines 99-102), the onClick of every item of the
\* lower list (lines 195-204): logout, then navigate to the login view
handleLogout(item) ==
  /\ item \in settingsItems
  /\ logout

\* <Navigate to="/auth?mode=login" replace /> once ProtectRoute returned it
Navigate ==
  /\ View(client) = "redirect"
  /\ client' = [client EXCEPT !.location = LoginView, !.loggedOut = FALSE]
  /\ ClientOnly

\* ------------------------------------------------------ the specifications
\* a step of the server alone
ServerOnly == UNCHANGED <<client, api>>

\* The authentication service with the signing secret configured: any
\* requests, two of them in flight at a time.  The handlers read no clock
\* but to stamp the tokens, and time stands still here.
Init ==
  /\ users = <<>>
  /\ req = [s \in Slots |-> Idle]
  /\ clock = 0
  /\ jwtSecret = "s3cret"
  /\ gate = NoGate
  /\ client = UserProvider(NoToken, "/")
  /\ api = NoApi

Next ==
  \/ \E s \in Slots, body \in RegisterBodies, salt \in Salts :
       registerUser_begin(s, body.name, body.email, body.password, salt) /\ ServerOnly
  \/ \E s \in Slots : registerUser_insert(s) /\ ServerOnly
  \/ \E s \in Slots, body \in LoginBodies :
       loginUser(s, body.email, body.password) /\ ServerOnly
  \/ \E s \in Slots, token \in GoogleTokens : googleAuth_begin(s, token) /\ ServerOnly
  \/ \E s \in Slots : googleAuth_insert(s) /\ ServerOnly
  \/ \E s \in Slots : googleAuth_update(s) /\ ServerOnly
  \/ \E s \in Slots, token \in MicrosoftTokens : microsoftAuth_begin(s, token) /\ ServerOnly
  \/ \E s \in Slots : microsoftAuth_insert(s) /\ ServerOnly
  \/ \E s \in Slots : microsoftAuth_update(s) /\ ServerOnly

Spec == Init /\ [][Next]_vars

\* The session gate: the requests of one user (Alice: one email, one
\* password, one Google and one Microsoft account), one at a time, under
\* either configuration of the signing secret, while time passes and any
\* header is presented to GET /verify.
InitGate ==
  /\ users = <<>>
  /\ req = [s \in Slots |-> Idle]
  /\ clock = 0
  /\ jwtSecret \in Secrets
  /\ gate = NoGate
  /\ client = UserProvider(NoToken, "/")
  /\ api = NoApi

AliceRegisterBodies == {b \in RegisterBodies : b.email = "alice@x.com"}
AliceLoginBodies == {b \in LoginBodies : b.email = "alice@x.com"}
AliceGoogleTokens ==
  {t \in GoogleTokens : t.valid /\ t.email = "alice@x.com" /\ t.sub = "g-42"}

NextGate ==
  \/ \E body \in AliceRegisterBodies, salt \in Salts :
       registerUser_begin(1, body.name, body.email, body.password, salt) /\ ServerOnly
  \/ registerUser_insert(1) /\ ServerOnly
  \/ \E body \in AliceLoginBodies : loginUser(1, body.email, body.password) /\ ServerOnly
  \/ \E token \in AliceGoogleTokens : googleAuth_begin(1, token) /\ ServerOnly
  \/ googleAuth_insert(1) /\ ServerOnly
  \/ googleAuth_update(1) /\ ServerOnly
  \/ \E token \in MicrosoftTokens : microsoftAuth_begin(1, token) /\ ServerOnly
  \/ microsoftAuth_insert(1) /\ ServerOnly
  \/ microsoftAuth_update(1) /\ ServerOnly
  \/ \E header \in Headers : verify(header) /\ ServerOnly
  \/ Tick /\ ServerOnly

SpecGate == InitGate /\ [][NextGate]_vars

\* The client of one user against the service with the signing secret
\* configured, while time passes: page loads, the forms of the login view,
\* logout, and requests without a header to the gated endpoint.
ClientLoginBodies == {b \in AliceLoginBodies : b.password # Missing}
ClientRegisterBodies == {b \in AliceRegisterBodies : b.name # Missing}
ClientMicrosoftTokens ==
  {t \in MicrosoftTokens : t.preferred_username = "alice@x.com"}

ContextFunctions ==
  {"login", "registerUser", "loginWithGoogle", "loginWithMicrosoft"}

NextClient ==
  \/ \E location \in Locations : load(location)
  \/ verifyToken
  \/ verifyToken_response
  \/ verifyToken_catch
  \/ \E body \in ClientLoginBodies : login(body.email, body.password)
  \/ \E body \in ClientRegisterBodies, salt \in Salts :
       registerUser(body.name, body.email, body.password, salt)
  \/ \E token \in AliceGoogleTokens : loginWithGoogle(token)
  \/ \E token \in ClientMicrosoftTokens : loginWithMicrosoft(token)
  \/ \E op \in ContextFunctions : limited(op)
  \/ registerUser_insert(1) /\ ServerOnly
  \/ googleAuth_insert(1) /\ ServerOnly
  \/ googleAuth_update(1) /\ ServerOnly
  \/ microsoftAuth_insert(1) /\ ServerOnly
  \/ microsoftAuth_update(1) /\ ServerOnly
  \/ handleAuthResponse
  \/ fetch_catch
  \/ \E item \in settingsItems : handleLogout(item)
  \/ Navigate
  \/ verify(NoHeader) /\ ServerOnly
  \/ Tick /\ ServerOnly

SpecClient == Init /\ [][NextClient]_vars

\* The verification on page load under its scheduling, in a production
\* or a development build: React runs the effect of UserProvider once the
\* provider has mounted, and a fetch of GET /verify settles, with a
\* response or with an error.  The client of a user who registers, reloads
\* pages and logs out, while time passes.
NextVerify ==
  \/ \E location \in Locations : load(location)
  \/ verifyToken
  \/ verifyToken_strict
  \/ verifyToken_response
  \/ verifyToken_catch
  \/ \E body \in ClientRegisterBodies, salt \in Salts :
       registerUser(body.name, body.email, body.password, salt)
  \/ registerUser_insert(1) /\ ServerOnly
  \/ handleAuthResponse
  \/ \E item \in settingsItems : handleLogout(item)
  \/ Navigate
  \/ Tick /\ ServerOnly

SpecVerify ==
  /\ Init
  /\ [][NextVerify]_vars
  /\ WF_vars(verifyToken \/ verifyToken_strict)
  /\ WF_vars(verifyToken_response \/ verifyToken_catch)

\* The Microsoft sign-in of the login view with any of the tokens, beside
\* the registration form: the page is loaded at the login view with
\* nothing stored, its verification over.
InitMicrosoft ==
  /\ users = <<>>
  /\ req = [s \in Slots |-> Idle]
  /\ clock = 0
  /\ jwtSecret = "s3cret"
  /\ gate = NoGate
  /\ client = [UserProvider(NoToken, LoginView)
                 EXCEPT !.authLoading = FALSE, !.pc = "ready"]
  /\ api = NoApi

NextMicrosoft ==
  \/ \E body \in ClientRegisterBodies, salt \in Salts :
       registerUser(body.name, body.email, body.password, salt)
  \/ registerUser_insert(1) /\ ServerOnly
  \/ \E token \in MicrosoftTokens : loginWithMicrosoft(token)
  \/ microsoftAuth_insert(1) /\ ServerOnly
  \/ microsoftAuth_update(1) /\ ServerOnly
  \/ \E token \in AliceGoogleTokens : loginWithGoogle(token)
  \/ googleAuth_insert(1) /\ ServerOnly
  \/ googleAuth_update(1) /\ ServerOnly
  \/ handleAuthResponse
  \/ fetch_catch
  \/ Navigate

SpecMicrosoft == InitMicrosoft /\ [][NextMicrosoft]_vars

\* The users endpoint beside the service: the requests of one user, one at
\* a time, and GET /api/users.
NextApi ==
  \/ \E body \in RegisterBodies, salt \in Salts :
       registerUser_begin(1, body.name, body.email, body.password, salt)
         /\ ServerOnly
  \/ registerUser_insert(1) /\ ServerOnly
  \/ \E body \in LoginBodies :
       loginUser(1, body.email, body.password) /\ ServerOnly
  \/ \E token \in GoogleTokens : googleAuth_begin(1, token) /\ ServerOnly
  \/ googleAuth_insert(1) /\ ServerOnly
  \/ googleAuth_update(1) /\ ServerOnly
  \/ getUsers

SpecApi == Init /\ [][NextApi]_vars

\* ================================================================ claims
\* a completed request of handler op that answered 200
Answered(s, op) ==
  req[s].pc = "done" /\ req[s].op = op /\ req[s].status = 200

\* the slot s takes a new request in this step
Begins(s) == Vacant(s) /\ req'[s] # req[s]

\* C1: when two googleAuth requests for the same Google subject id and the
\* same email have both been answered and that identity was brand-new (the
\* lookup of at least one of them found no record and took the create
\* branch), the store holds exactly one record with that googleId.
C1_OneRecordForConcurrentNewSubject ==
  \A s, t \in Slots :
    (/\ s # t
     /\ Answered(s, "google") /\ Answered(t, "google")
     /\ req[s].sub = req[t].sub /\ req[s].email = req[t].email
     /\ req[s].branch = "created")
    => Cardinality({i \in 1..Len(users) :
                      users[i].googleId = req[s].sub}) = 1

\* C2: no two user records have the same email.
C2_EmailUnique ==
  \A i, j \in 1..Len(users) : i # j => users[i].email # users[j].email

\* C3: a registerUser request with all three fields present whose lookup
\* finds no record with its email goes on to create one record (that email,
\* a hash of that password) and answers 200 with a token for the new id; one
\* whose lookup finds a record with its email answers 400 (duplicate),
\* issues no token and creates no record.
C3_RegisterOnceThenDuplicate ==
  [][\A s \in Slots :
       /\ (/\ Begins(s) /\ req'[s].op = "register"
           /\ req'[s].name # Missing /\ req'[s].email # Missing
           /\ req'[s].password # Missing)
          => /\ users' = users
             /\ IF \E i \in 1..Len(users) : users[i].email = req'[s].email
                THEN /\ req'[s].pc = "done"
                     /\ req'[s].status = 400
                     /\ req'[s].access = NoToken
                ELSE req'[s].pc = "insertOne"
       /\ (req[s].op = "register" /\ req[s].pc = "insertOne"
           /\ req'[s].pc = "done")
          => /\ req'[s].status = 200
             /\ Len(users') = Len(users) + 1
             /\ SubSeq(users', 1, Len(users)) = users
             /\ LET new == users'[Len(users')]
                IN /\ new.email = req[s].email
                   /\ bcrypt_compare(req[s].password, new.passwordHash)
                        = "match"
                   /\ \A i \in 1..Len(users) : users[i]._id # new._id
                   /\ req'[s].access.userId = toString(new._id)]_vars

\* C3, witness: a registration was answered 400 as a duplicate of a
\* registered record with its email.
C3_Witness ==
  \E s \in Slots :
    /\ req[s].pc = "done" /\ req[s].op = "register" /\ req[s].status = 400
    /\ req[s].name # Missing /\ req[s].password # Missing
    /\ \E i \in 1..Len(users) :
         users[i].email = req[s].email /\ users[i].passwordHash # NoHash

\* C4: for every record created by registerUser (it has a password hash),
\* loginUser with its email and its password answers 200 with a token for
\* that record's id, and with its email and another password answers 401
\* and issues no token.
C4_LoginRegisteredAccount ==
  [][\A s \in Slots :
       (/\ Begins(s) /\ req'[s].op = "login"
        /\ req'[s].email # Missing /\ req'[s].password # Missing)
       => \A i \in 1..Len(users) :
            (users[i].email = req'[s].email
             /\ users[i].passwordHash # NoHash)
            => IF bcrypt_compare(req'[s].password, users[i].passwordHash)
                    = "match"
               THEN /\ req'[s].status = 200
                    /\ req'[s].access.userId = toString(users[i]._id)
               ELSE /\ req'[s].status = 401
                    /\ req'[s].access = NoToken]_vars

\* C5: loginUser with the email of a federated-only account (the records
\* with that email have no password hash) answers 401 Invalid credentials,
\* as for an unknown email.
C5_LoginFederatedOnlyIs401 ==
  [][\A s \in Slots :
       (/\ Begins(s) /\ req'[s].op = "login"
        /\ req'[s].email # Missing /\ req'[s].password # Missing
        /\ \E i \in 1..Len(users) : users[i].email = req'[s].email
        /\ \A i \in 1..Len(users) :
             users[i].email = req'[s].email
             => users[i].passwordHash = NoHash)
       => /\ req'[s].status = 401
          /\ req'[s].message = "Invalid credentials"
          /\ req'[s].access = NoToken]_vars

\* the provider id of a record for the provider of handler op
ProviderId(u, op) == IF op = "google" THEN u.googleId ELSE u.microsoftId

\* the slot s takes a federated login whose provider token was accepted
\* and carries a subject id
BeginsFederated(s) ==
  /\ Begins(s)
  /\ req'[s].op \in {"google", "microsoft"}
  /\ req'[s].provider = "accepted"
  /\ req'[s].sub # Missing /\ req'[s].email # Missing

\* C8: a federated login answered 200 for a subject id, then a second login
\* through the same provider with the same subject id: the second resolves
\* to the same user id as the first and creates no record.
C8_SameSubjectSameUser ==
  [][\A s, t \in Slots :
       (/\ BeginsFederated(s)
        /\ Answered(t, req'[s].op)
        /\ req[t].sub = req'[s].sub)
       => /\ req'[s].pc # "insertOne"
          /\ req'[s].user = req[t].user]_vars

\* the step that ends a link: the awaited updateOne and the response
LinkStepOk(s) ==
  (req[s].pc = "updateOne" /\ req'[s].pc = "done")
  => /\ Len(users') = Len(users)
     /\ \A i \in 1..Len(users) :
          IF users[i]._id = req[s].user
          THEN /\ ProviderId(users'[i], req[s].op) = req[s].sub
               /\ users'[i]._id = users[i]._id
               /\ users'[i].email = users[i].email
               /\ users'[i].passwordHash = users[i].passwordHash
          ELSE users'[i] = users[i]
     /\ req'[s].status = 200
     /\ req'[s].access.userId = toString(req[s].user)

\* C9 as claimed: a federated login whose token email is the email of a
\* credential-registered record (the only record with that email) that has
\* no id for that provider links that record: it takes the link branch for
\* it, creates no record, sets the subject id on it and issues the token
\* for its id.
C9_LinksRegisteredRecord ==
  [][\A s \in Slots :
       /\ BeginsFederated(s)
          => \A i \in 1..Len(users) :
               (/\ users[i].email = req'[s].email
                /\ users[i].passwordHash # NoHash
                /\ ProviderId(users[i], req'[s].op) = Null
                /\ \A j \in 1..Len(users) :
                     users[j].email = req'[s].email => j = i)
               => /\ req'[s].pc = "updateOne"
                  /\ req'[s].user = users[i]._id
                  /\ users' = users
       /\ LinkStepOk(s)]_vars

\* C9 as amended: the same, when that record is the one the lookup resolves
\* to, that is when no record stored before it matches the token's subject
\* id or email.
C9_LinksResolvedRegisteredRecord ==
  [][\A s \in Slots :
       /\ BeginsFederated(s)
          => \A i \in 1..Len(users) :
               (/\ users[i].email = req'[s].email
                /\ users[i].passwordHash # NoHash
                /\ ProviderId(users[i], req'[s].op) = Null
                /\ \A j \in 1..(i - 1) :
                     /\ users[j].email # req'[s].email
                     /\ ProviderId(users[j], req'[s].op) # req'[s].sub)
               => /\ req'[s].pc = "updateOne"
                  /\ req'[s].user = users[i]._id
                  /\ users' = users
       /\ LinkStepOk(s)]_vars

\* C9, witness: a federated login was answered after linking a
\* credential-registered record, which now carries its subject id.
C9_Witness ==
  \E s \in Slots :
    /\ Answered(s, "google") /\ req[s].branch = "linked"
    /\ \E i \in 1..Len(users) :
         /\ users[i]._id = req[s].user
         /\ users[i].passwordHash # NoHash
         /\ users[i].googleId = req[s].sub
         /\ req[s].access.userId = toString(users[i]._id)

\* C10: a googleAuth request whose token the Google verifier rejected is
\* answered with status 400, and leaves every record as it was.
C10_RejectedGoogleTokenIs400 ==
  [][\A s \in Slots :
       (Begins(s) /\ req'[s].op = "google" /\ req'[s].provider = "rejected")
       => /\ req'[s].pc = "done"
          /\ req'[s].status = 400
          /\ users' = users]_vars

\* ------------------------------------------------------ claims on the gate
\* the token of a header of the form "Bearer <token>", else NoToken
BearerToken(h) ==
  IF Len(h) = 3 /\ h[1] = Word("Bearer") /\ h[2] = Space /\ h[3].k = "jwt"
  THEN h[3].t ELSE NoToken

\* C6: a token issued by createToken for identity i, presented as
\* "Bearer <token>" at an instant before 24 hours after its issuance, is
\* accepted and GET /verify answers 200 with userId i; presented from its
\* expiry on, it is rejected with 401.
C6_IssuedTokenVerifiesUntilExpiry ==
  LET t == BearerToken(gate.header)
  IN (gate.status # 0 /\ t # NoToken /\ t # Forged)
     => /\ gate.at < t.iat + ExpiresIn
           => gate.status = 200 /\ gate.userId = t.userId
        /\ gate.at >= t.exp => gate.status = 401

\* C7: the gate answers 200 exactly when it calls next(), else 401; and it
\* calls next() only for a header "Bearer <token>" whose token carries the
\* server's signature and is not expired, with req.userId set from it.
C7_GateForwardsOnlyVerifiedTokens ==
  gate.status # 0
  => /\ gate.status = (IF gate.next THEN 200 ELSE 401)
     /\ gate.next
        => LET t == BearerToken(gate.header)
           IN /\ t # NoToken
              /\ jwtSecret # Missing /\ t.sig = jwtSecret
              /\ gate.at < t.exp
              /\ gate.userId = t.userId

\* C7, witness: a header with the scheme "Token" and a token that would
\* verify was rejected with 401, without next().
C7_Witness ==
  /\ gate.status = 401 /\ ~gate.next
  /\ Len(gate.header) = 3
  /\ gate.header[1] = Word("Token") /\ gate.header[2] = Space
  /\ gate.header[3].k = "jwt"
  /\ gate.header[3].t.sig = jwtSecret
  /\ gate.at < gate.header[3].t.exp

\* ------------------------------------------------------- the client claims
\* C11: once the on-load verification is over and the session is
\* authenticated (isLoggedIn), ProtectRoute renders its children and does
\* not redirect to the login view.
C11_AuthenticatedRendersChildren ==
  (~client.authLoading /\ client.isLoggedIn)
    => ProtectRoute(value(client)) = "children"

\* C12: while the on-load verification is not over (authLoading),
\* ProtectRoute renders the waiting placeholder, neither the children nor
\* a redirect.
C12_VerifyingRendersPlaceholder ==
  client.authLoading => ProtectRoute(value(client)) = "placeholder"

C12_Witness ==
  /\ client.pc = "verify"
  /\ client.authLoading
  /\ client.location = "/dashboard"
  /\ View(client) = "placeholder"

\* C13: ProtectRoute renders its children only if isLoggedIn holds and
\* authLoading does not; when the verification is over and isLoggedIn does
\* not hold it redirects, and the redirect leads to /auth?mode=login.
C13_ChildrenOnlyWhenLoggedIn ==
  /\ [](ProtectRoute(value(client)) = "children"
          => client.isLoggedIn /\ ~client.authLoading)
  /\ []((~client.authLoading /\ ~client.isLoggedIn)
          => ProtectRoute(value(client)) = "redirect")
  /\ [][(View(client) = "redirect" /\ client'.location # client.location
          /\ client'.pc = client.pc)
          => client'.location = "/auth?mode=login"]_vars

C13_Witness ==
  /\ client.pc = "ready"
  /\ ~client.authLoading
  /\ ~client.isLoggedIn
  /\ client.location = "/dashboard"
  /\ View(client) = "redirect"

\* the on-load verification ends in this step
VerificationEnds == client.pc = "verify" /\ client'.pc = "ready"

\* C14: when the on-load verification of a stored token ends, then either
\* the server answered GET /verify with OK and the client ends with
\* isLoggedIn true and a token still stored, or (non-OK answer, network
\* error) it ends with no token stored and isLoggedIn false.
C14_VerificationOutcome ==
  [][VerificationEnds =>
       \/ /\ gate' = authMiddleware(<<Word("Bearer"), Space,
                                       Jwt(client.bearer)>>)
          /\ gate'.status = 200
          /\ client'.isLoggedIn
          /\ client'.storage # NoToken
       \/ /\ client'.storage = NoToken
          /\ ~client'.isLoggedIn]_vars

\* C15: after logout the stored access token is absent, isLoggedIn is false
\* and the client is at the login view; a request then sent to the gated
\* endpoint without an Authorization header is answered 401 and not passed
\* on.
C15_LogoutClearsSession ==
  client.loggedOut =>
    /\ client.storage = NoToken
    /\ ~client.isLoggedIn
    /\ client.location = "/auth?mode=login"
    /\ (gate.header = NoHeader /\ gate.status # 0)
         => (gate.status = 401 /\ ~gate.next)

\* C15, witness: a user who had a token stored logged out, and a request
\* without a header was answered 401.
C15_Witness ==
  /\ client.loggedOut
  /\ client.bearer # NoToken
  /\ gate.header = NoHeader
  /\ gate.status = 401

\* ------------------------------------------------- what the answers reveal
\* a login request enters slot s in this step
BeginsLogin(s) == Begins(s) /\ req'[s].op = "login"

\* the stored hash does not belong to the password (there may be no hash)
WrongPassword(password, user) ==
  \A salt \in Salts : user.passwordHash # bcrypt_hash(password, salt)

\* C16: a login with a well-formed body that names an email without a
\* record, or an existing email with a wrong password, gets one and the
\* same response: status 401, body "Invalid credentials", no token.
C16_LoginHidesAccountExistence ==
  [][\A s \in Slots :
       LET r == req'[s]
           user == findOneByEmail(r.email)
       IN (/\ BeginsLogin(s)
           /\ r.email # Missing /\ r.password # Missing
           /\ (user = NoDoc \/ WrongPassword(r.password, user)))
          => (/\ r.pc = "done"
              /\ r.status = 401
              /\ r.message = "Invalid credentials"
              /\ r.access = NoToken)]_vars

\* C17: every rejection of the session gate (missing header, malformed
\* header, invalid or expired token) has the status and the body of the
\* rejection of a request without a header.
C17_GateRejectionUndifferentiated ==
  (gate.status # 0 /\ ~gate.next)
    => /\ gate.status = authMiddleware(NoHeader).status
       /\ gate.message = authMiddleware(NoHeader).message

\* C18: no response carries the passwordHash of a stored user record.  The
\* responses of the authorisation routes and of the gate consist of a
\* message or a session token; the body of GET /api/users is the one that
\* holds documents.
C18_NoResponseCarriesPasswordHash ==
  \A i \in DOMAIN api.body, j \in DOMAIN users :
    users[j].passwordHash # NoHash
      => api.body[i].passwordHash # users[j].passwordHash

\* C20: when the create step of a federated login comes after a record
\* with the same email was inserted concurrently, no further record is
\* added and the request ends with status 200 and a session token for the
\* record found by that email.
C20_CreateRaceRefetchesByEmail ==
  [][\A s \in Slots :
       (/\ req[s].pc = "insertOne"
        /\ req[s].op \in {"google", "microsoft"}
        /\ req'[s].pc = "done"
        /\ findOneByEmail(req[s].email) # NoDoc)
       => (/\ Len(users') = Len(users)
           /\ req'[s].status = 200
           /\ req'[s].access.userId =
                toString(findOneByEmail(req[s].email)._id))]_vars

\* ------------------------------------------------- the Microsoft sign-in
\* the first of the values that is present, if any
FirstPresent(values) ==
  IF \E i \in DOMAIN values : values[i] # Missing
  THEN values[First({i \in DOMAIN values : values[i] # Missing})]
  ELSE Missing

\* C19: for the token the client sends to microsoftAuth, the email is the
\* first present of preferred_username, upn, email and the subject the
\* first present of oid, sub; a token that cannot be decoded, or without
\* an email claim, or without a subject claim, is answered 400 at once and
\* leaves the store as it is; any other token goes on with that email and
\* that subject.
C19_MicrosoftClaimResolution ==
  [][(client.awaiting = "none" /\ client'.awaiting = "loginWithMicrosoft")
       => LET t == client'.msToken
              r == req'[1]
              email == FirstPresent(<<t.preferred_username, t.upn, t.email>>)
              subject == FirstPresent(<<t.oid, t.sub>>)
          IN IF ~t.present \/ ~t.decodable
                \/ email = Missing \/ subject = Missing
             THEN r.pc = "done" /\ r.status = 400 /\ users' = users
             ELSE /\ r.op = "microsoft"
                  /\ r.email = email /\ r.sub = subject
                  /\ r.status # 400]_vars

\* C19, witness: a token without preferred_username and without oid went
\* on with its upn (not its email claim) and its sub; and a token without
\* any subject claim was answered 400.
C19_Witness ==
  /\ client.awaiting = "loginWithMicrosoft"
  /\ client.msToken.preferred_username = Missing
  /\ client.msToken.upn # Missing
  /\ client.msToken.email \notin {Missing, client.msToken.upn}
  /\ client.msToken.oid = Missing
  /\ req[1].email = client.msToken.upn
  /\ req[1].sub = client.msToken.sub
  /\ req[1].status = 200

\* ------------------------------------------------ linking and resolution
\* slot s gives its response in this step
Responds(s) == req'[s] # req[s] /\ req'[s].pc = "done"

\* C21: a googleId or microsoftId that is set on a record is never cleared
\* or replaced by any step, and a federated login through that provider
\* with that subject id resolves to the record that carries it.
C21_LinkingIsMonotonic ==
  [][/\ \A i \in 1..Len(users) :
          /\ users[i].googleId # Null
               => users'[i].googleId = users[i].googleId
          /\ users[i].microsoftId # Null
               => users'[i].microsoftId = users[i].microsoftId
     /\ \A s \in Slots :
          BeginsFederated(s)
          => \A i \in 1..Len(users) :
               ProviderId(users[i], req'[s].op) = req'[s].sub
                 => req'[s].user = users[i]._id]_vars

\* C22: a federated login for which one record carries the token's subject
\* id and another record (not carrying it) has the token's email resolves
\* to a record carrying the subject id and answers 200 with a session
\* token for it.
C22_SubjectIdPreferredOverEmail ==
  [][\A s \in Slots :
       LET r == req'[s]
       IN (/\ BeginsFederated(s)
           /\ \E i, j \in 1..Len(users) :
                /\ ProviderId(users[i], r.op) = r.sub
                /\ users[j].email = r.email
                /\ ProviderId(users[j], r.op) # r.sub)
          => (/\ r.pc = "done" /\ r.status = 200
              /\ r.access.userId = toString(r.user)
              /\ \E i \in 1..Len(users) :
                   /\ users[i]._id = r.user
                   /\ ProviderId(users[i], r.op) = r.sub)]_vars

\* C23: no step removes a record; a step changes an existing record only
\* by the update of a federated login that sets its provider id, null
\* until then, to the subject id of the request; and the step of a login
\* or of a request that fails leaves the store as it is.
C23_StoreFrame ==
  [][/\ Len(users') >= Len(users)
     /\ \A i \in 1..Len(users) :
          \/ users'[i] = users[i]
          \/ \E s \in Slots :
               /\ req[s].pc = "updateOne" /\ Responds(s)
               /\ users[i]._id = req[s].user
               /\ ProviderId(users[i], req[s].op) = Null
               /\ users'[i] =
                    IF req[s].op = "google"
                    THEN [users[i] EXCEPT !.googleId = req[s].sub]
                    ELSE [users[i] EXCEPT !.microsoftId = req[s].sub]
     /\ \A s \in Slots :
          (Responds(s) /\ (req'[s].op = "login" \/ req'[s].status # 200))
            => users' = users]_vars

\* C25: when a federated login answers 200 for a provider token with
\* subject id sub, the record the session token names carries sub as the
\* id of that provider.
C25_TokenRecordCarriesSubject ==
  [][\A s \in Slots :
       (/\ Responds(s)
        /\ req'[s].op \in {"google", "microsoft"}
        /\ req'[s].status = 200)
       => \E i \in 1..Len(users') :
            /\ toString(users'[i]._id) = req'[s].access.userId
            /\ ProviderId(users'[i], req'[s].op) = req'[s].sub]_vars


\* ------------------------------------------------- signing and verifying
\* C26: in every configuration of the signing secret, JWT_SECRET unset
\* included, the key createToken signs with is the key authMiddleware
\* verifies with: an unexpired token the server issued is never rejected by
\* the server's own gate.
C26_SigningKeyIsVerifyingKey ==
  \A t \in Issued :
     /\ t.sig = createToken(t.userId).sig
     /\ createToken(t.userId).sig = jwtSecret
     /\ clock < t.exp
        => authMiddleware(<<Word("Bearer"), Space, Jwt(t)>>).status = 200


\* ------------------------------------- the verification against the forms
\* C27: when a login or registration succeeded (new token stored,
\* isLoggedIn true) while the verification of the older stored token was
\* still in flight, the end of that verification, a failure included,
\* neither removes the stored token nor sets isLoggedIn back to false.
C27_LateVerificationKeepsNewSession ==
  [][(VerificationEnds /\ client.isLoggedIn)
     => /\ client'.storage = client.storage
        /\ client'.isLoggedIn]_vars

\* C28: in every client state where the verification has finished and
\* isLoggedIn is true, an access token is in the client storage, whatever
\* the interleaving of the verification response with login, registration
\* and logout.
C28_LoggedInHoldsToken ==
  (client.pc = "ready" /\ ~client.authLoading /\ client.isLoggedIn)
  => client.storage # NoToken


\* --------------------------------------------------- the sidebar's items
\* C30: selecting the Account or the Settings item of the sidebar leaves
\* the session unchanged, the stored token is kept and isLoggedIn stays as
\* it is; only the Logout item discards the token and moves the client to
\* Unauthenticated.
C30_OnlyLogoutItemEndsSession ==
  [][/\ (handleLogout("Account") \/ handleLogout("Settings"))
        => /\ client'.storage = client.storage
           /\ client'.isLoggedIn = client.isLoggedIn
     /\ handleLogout("Logout")
        => /\ client'.storage = NoToken
           /\ ~client'.isLoggedIn]_vars


\* ------------------------------------------- results of the context functions
\* a context function that was in flight ends (a page load abandons it)
Settles ==
  /\ client.awaiting \notin Settled
  /\ client'.awaiting \in Settled
  /\ client'.pc = client.pc

\* C29: login, registerUser, loginWithGoogle and loginWithMicrosoft always
\* complete with a result value and never with an exception, for every
\* server outcome (OK, error with a JSON body, error with a body that is
\* not JSON such as the rate limiter's, network failure); on every outcome
\* but the OK response the stored token and isLoggedIn are unchanged.
C29_ContextFunctionsNeverReject ==
  [][Settles
     => /\ client'.awaiting = "none"
        /\ (client'.storage # client.storage
            \/ client'.isLoggedIn # client.isLoggedIn)
           => (req[1].pc = "done" /\ req[1].status = 200)]_vars


\* ------------------------------------------------ the verification ends
\* C24: after a page load the client leaves the Verifying state
\* (authLoading becomes false) in every case, no stored token, verify
\* answered OK, verify answered non-OK or the request failed, provided the
\* request completes or errors; at most one verify request is sent per
\* load, and the client does not return to Verifying but by a page load.
C24_VerificationTerminates ==
  /\ [](client.pc = "ready" => ~client.authLoading)
  /\ [][/\ inFlight(client') > inFlight(client)
           => (client.pc = "mount" /\ inFlight(client') = 1)
        /\ (client'.authLoading /\ ~client.authLoading)
           => \E location \in Locations : load(location)]_vars
  /\ (client.pc = "mount") ~> (client.pc # "mount")
  /\ (inFlight(client) > 0) ~> (~client.authLoading \/ client.pc = "mount")

====
